---- MODULE Spec2Model ----
(***************************************************************************)
(* Model of the gesture-driven particle formation (src/App.tsx and the    *)
(* Scene3D component in src/unnamed/part_000).                             *)
(*                                                                         *)
(* Lengths are fixed-point: image coordinates, distances and the pointer   *)
(* signal are in thousandths (0.05 is 50, 0.12 is 120, 0.2 is 200, 0.4 is  *)
(* 400); dt is in milliseconds; rotations are in micro-radians.            *)
(***************************************************************************)
EXTENDS Integers, Naturals, Sequences, FiniteSets, TLC

\* ------------------------------------------------------------------ bounds
MaxPending == 2      \* cap on queued predict callbacks
MaxRun == 2          \* cap on the counted length of a run of no-hand frames
MaxTicks == 3        \* cap on the number of animate ticks
MaxImages == 2       \* cap on the number of uploaded payloads
GoldCount == 1       \* CONFIG.particles.count in the model
DustCount == 1       \* CONFIG.particles.dustCount in the model
MaxExtra == 1        \* GOLD particles short of, or beyond, the mosaic cells

\* --------------------------------------------------------------- constants
HeartThreshold == 120
PinchThreshold == 50
TreeThreshold == 200
ScatterThreshold == 400

\* Landmark indices the classifier reads.
LmIdx == {0, 4, 8, 9, 12, 16, 20}

Pt(px, py) == [x |-> px, y |-> py]

\* ------------------------------------------------------------ pure helpers
RECURSIVE SqrtSearch(_, _, _)
SqrtSearch(n, lo, hi) ==
  IF lo >= hi THEN lo
  ELSE LET mid == (lo + hi + 1) \div 2
       IN IF mid * mid <= n THEN SqrtSearch(n, mid, hi)
          ELSE SqrtSearch(n, lo, mid - 1)

Abs(v) == IF v < 0 THEN -v ELSE v

\* Division that rounds toward zero.
TDiv(a, b) == IF a < 0 THEN -((-a) \div b) ELSE a \div b

\* Math.hypot on fixed-point operands, rounded down to the unit; the root
\* lies between the larger leg and the sum of the legs.
Hypot(dx, dy) ==
  SqrtSearch(dx * dx + dy * dy,
             IF Abs(dx) > Abs(dy) THEN Abs(dx) ELSE Abs(dy),
             Abs(dx) + Abs(dy))

\* A hand is an array of landmarks: len is its length, pt[i] the element at
\* index i, which exists only when i < len.
Has(h, i) == i < h.len

\* result.landmarks[k] for k = 0, 1: undefined when the array is shorter.
HasHand(result, k) == Len(result) > k

\* Indices dereferenced on the first hand, and on the second when present.
FirstHandReads == {0, 4, 8, 9, 12, 16, 20}
SecondHandReads == {4, 8}

\* A property read on an undefined landmark raises a TypeError.
Raises(result) ==
  /\ HasHand(result, 0)
  /\ \/ \E i \in FirstHandReads : ~Has(result[1], i)
     \/ /\ HasHand(result, 1)
        /\ \E i \in SecondHandReads : ~Has(result[2], i)

DistThumbs(lm, lm2) == Hypot(lm.pt[4].x - lm2.pt[4].x, lm.pt[4].y - lm2.pt[4].y)
DistIndices(lm, lm2) == Hypot(lm.pt[8].x - lm2.pt[8].x, lm.pt[8].y - lm2.pt[8].y)

IsHeart(result) ==
  /\ HasHand(result, 1)
  /\ DistIndices(result[1], result[2]) < HeartThreshold
  /\ DistThumbs(result[1], result[2]) < HeartThreshold

PinchDist(lm) == Hypot(lm.pt[4].x - lm.pt[8].x, lm.pt[4].y - lm.pt[8].y)

WristDist(lm, i) == Hypot(lm.pt[i].x - lm.pt[0].x, lm.pt[i].y - lm.pt[0].y)

\* Sum over tips = [lm[8], lm[12], lm[16], lm[20]], then divided by 4.
AvgDist(lm) ==
  (WristDist(lm, 8) + WristDist(lm, 12) + WristDist(lm, 16) + WristDist(lm, 20)) \div 4

PointerNoScale(lm) ==
  [detected |-> TRUE, x |-> lm.pt[9].x - 500, y |-> lm.pt[9].y - 500]

\* x: (lm[9].x - 0.5) * 2, y: (lm[9].y - 0.5) * 2
Pointer(lm) ==
  [detected |-> TRUE, x |-> (lm.pt[9].x - 500) * 2, y |-> (lm.pt[9].y - 500) * 2]

ChainPinchFirst(m, isHeart, pinchDist, avgDist) ==
  IF pinchDist < PinchThreshold THEN "FOCUS"
  ELSE IF isHeart THEN "DATE"
  ELSE IF avgDist < TreeThreshold THEN "TREE"
  ELSE IF avgDist > ScatterThreshold THEN "SCATTER"
  ELSE m

ChainInclusive(m, isHeart, pinchDist, avgDist) ==
  IF isHeart THEN "DATE"
  ELSE IF pinchDist < PinchThreshold THEN "FOCUS"
  ELSE IF avgDist <= TreeThreshold THEN "TREE"
  ELSE IF avgDist >= ScatterThreshold THEN "SCATTER"
  ELSE m

ChainSpreadFirst(m, isHeart, pinchDist, avgDist) ==
  IF isHeart THEN "DATE"
  ELSE IF avgDist < TreeThreshold THEN "TREE"
  ELSE IF avgDist > ScatterThreshold THEN "SCATTER"
  ELSE IF pinchDist < PinchThreshold THEN "FOCUS"
  ELSE m

\* The if / else-if chain that writes Mode; m is the Mode before the call.
ModeChain(m, isHeart, pinchDist, avgDist) ==
  IF isHeart THEN "DATE"
  ELSE IF pinchDist < PinchThreshold THEN "FOCUS"
  ELSE IF avgDist < TreeThreshold THEN "TREE"
  ELSE IF avgDist > ScatterThreshold THEN "SCATTER"
  ELSE m

NoHandReset(hd) == [detected |-> FALSE, x |-> 0, y |-> 0, isHeart |-> FALSE]

\* setHandData(prev => ({ ...prev, detected: false, isHeart: false }))
NoHand(hd) == [hd EXCEPT !.detected = FALSE, !.isHeart = FALSE]

ProcessSmoothsX(result, m, hd) ==
  IF HasHand(result, 0)
  THEN LET lm == result[1]
           isHeart == IsHeart(result)
           p == Pointer(lm)
       IN [mode |-> ModeChain(m, isHeart, PinchDist(lm), AvgDist(lm)),
           hand |-> [detected |-> p.detected, x |-> TDiv(p.x + hd.x, 2),
                     y |-> p.y,
                     isHeart |-> isHeart]]
  ELSE [mode |-> m, hand |-> NoHand(hd)]

\* processGestures on a result that does not raise: the new (Mode, handData).
ProcessGestures(result, m, hd) ==
  IF HasHand(result, 0)
  THEN LET lm == result[1]
           isHeart == IsHeart(result)
           p == Pointer(lm)
       IN [mode |-> ModeChain(m, isHeart, PinchDist(lm), AvgDist(lm)),
           hand |-> [detected |-> p.detected, x |-> p.x, y |-> p.y,
                     isHeart |-> isHeart]]
  ELSE [mode |-> m, hand |-> NoHand(hd)]

\* -------------------------------------------------------- formation engine
\* updateRotation: m and hd are the mode and handData bound in its closure.
UpdateRotation(rot, dt, m, hd) ==
  IF hd.detected /\ m # "TREE"
  THEN [y |-> rot.y + TDiv((hd.x * 1571 - rot.y) * 2 * dt, 1000),
        x |-> rot.x + TDiv((hd.y * 628 - rot.x) * 2 * dt, 1000)]
  ELSE IF m = "TREE"
  THEN [y |-> rot.y + 400 * dt, x |-> TDiv(rot.x * 95, 100)]
  ELSE IF m = "DATE"
  THEN [y |-> TDiv(rot.y * 95, 100), x |-> TDiv(rot.x * 95, 100)]
  ELSE [y |-> rot.y + 100 * dt, x |-> rot.x]

\* ------------------------------------------------------- fixed-point maths
\* Scene lengths and scales are in thousandths of a unit, angles passed to
\* SinM and CosM in milli-radians, and their results in thousandths.
PiM == 3142
TwoPiM == 6283
HalfPiM == 1571

\* The sine of an angle already reduced to [0, pi/2], by its Taylor series.
SinQ(a) ==
  LET a2 == (a * a) \div 1000
      a3 == (a2 * a) \div 1000
      a5 == (a3 * a2) \div 1000
      a7 == (a5 * a2) \div 1000
      s == a - (a3 \div 6) + (a5 \div 120) - (a7 \div 5040)
  IN IF s > 1000 THEN 1000 ELSE IF s < 0 THEN 0 ELSE s

\* Math.sin
SinM(a) ==
  LET r == a % TwoPiM
  IN IF r <= HalfPiM THEN SinQ(r)
     ELSE IF r <= PiM THEN SinQ(PiM - r)
     ELSE IF r <= PiM + HalfPiM THEN -SinQ(r - PiM)
     ELSE -SinQ(TwoPiM - r)

\* Math.cos
CosM(a) == SinM(a + HalfPiM)

\* Math.pow(u, 0.85) for u in [0, 1): tabulated every 0.125 and interpolated.
PowTable == <<0, 171, 308, 434, 555, 671, 783, 893, 1000>>
Pow085(u) ==
  LET k == u \div 125
      lo == PowTable[k + 1]
      hi == PowTable[k + 2]
  IN lo + ((hi - lo) * (u % 125)) \div 125

\* Math.sin(Math.acos(c)) for c in [-1, 1].
SinAcos(c) == SqrtSearch(1000000 - c * c, 0, 1000)

\* THREE.Vector3
V3(vx, vy, vz) == [x |-> vx, y |-> vy, z |-> vz]

\* Vector3.multiplyScalar by num/den.
MultiplyScalar(v, num, den) ==
  V3(TDiv(v.x * num, den), TDiv(v.y * num, den), TDiv(v.z * num, den))

LerpOvershoot(v, t, rate10, dt) == v + TDiv((t - v) * 2 * rate10 * dt, 10000)

\* One component of Vector3.lerp(target, rate * dt): v += (t - v) * alpha, with
\* rate10 ten times the rate and dt in milliseconds.
Lerp(v, t, rate10, dt) == v + TDiv((t - v) * rate10 * dt, 10000)

LerpV(v, t, rate10, dt) ==
  V3(Lerp(v.x, t.x, rate10, dt), Lerp(v.y, t.y, rate10, dt),
     Lerp(v.z, t.z, rate10, dt))

\* Math.random(): the draws, in thousandths, that a run makes; Rand(sd, n, j)
\* is draw j made while particle number n is built in a run seeded sd.
Samples == <<0, 125, 250, 375, 500, 625, 750, 875, 999>>
Rand(sd, n, j) == Samples[((sd + 4 * n + 7 * j) % Len(Samples)) + 1]

\* ------------------------------------------------------------ date mosaic
\* DIGITS: the 5x7 bitmaps of the characters that occur in the date.
DIGITS ==
  [d \in {"0", "1", "2", "3"} |->
     CASE d = "0" -> << <<1,1,1,1,1>>, <<1,0,0,0,1>>, <<1,0,0,0,1>>,
                        <<1,0,0,0,1>>, <<1,0,0,0,1>>, <<1,0,0,0,1>>,
                        <<1,1,1,1,1>> >>
       [] d = "1" -> << <<0,0,1,0,0>>, <<0,1,1,0,0>>, <<0,0,1,0,0>>,
                        <<0,0,1,0,0>>, <<0,0,1,0,0>>, <<0,0,1,0,0>>,
                        <<0,1,1,1,0>> >>
       [] d = "2" -> << <<1,1,1,1,1>>, <<0,0,0,0,1>>, <<0,0,0,0,1>>,
                        <<1,1,1,1,1>>, <<1,0,0,0,0>>, <<1,0,0,0,0>>,
                        <<1,1,1,1,1>> >>
       [] d = "3" -> << <<1,1,1,1,1>>, <<0,0,0,0,1>>, <<0,0,0,0,1>>,
                        <<0,1,1,1,1>>, <<0,0,0,0,1>>, <<0,0,0,0,1>>,
                        <<1,1,1,1,1>> >> ]

fullDateStr == <<"2", "3", "1", "2", "2", "0", "0", "2">>
spacing == 4000
startX == -((Len(fullDateStr) * spacing) \div 2)

\* matrix.forEach over the bitmap of the character at index idx (from 0):
\* cell k (from 0) is column k % 5 of row k \div 5, and the lit cells are
\* pushed in that order.
CellLit(idx, k) == DIGITS[fullDateStr[idx + 1]][(k \div 5) + 1][(k % 5) + 1] = 1
CellPosition(idx, k) ==
  V3(startX + idx * spacing + (k % 5) * 600, 4000 - (k \div 5) * 600, 0)
LitBefore(idx, k) == Cardinality({j \in 0..(k - 1) : CellLit(idx, j)})
CharPositions(idx) ==
  [i \in 1..LitBefore(idx, 35) |->
     CellPosition(idx, CHOOSE k \in 0..34 :
                         CellLit(idx, k) /\ LitBefore(idx, k) = i - 1)]

RECURSIVE PushChars(_)
PushChars(idx) ==
  IF idx = Len(fullDateStr) THEN <<>>
  ELSE CharPositions(idx) \o PushChars(idx + 1)

\* datePositions after fullDateStr.split('').forEach.
datePositions == PushChars(0)

\* -------------------------------------------------------------- particles
\* mesh.id of the first particle mesh: the objects built before it (two
\* groups, scene, camera, two lights and the point light's shadow camera).
FirstMeshId == 7

\* generateParticleObject for the n-th particle built (from 1), whose mesh
\* has uniform scale meshScale; cfg is CONFIG.particles and sd the seed of the
\* run's random draws.  target, speed, spin and scaleTo record what the last
\* tick resolved for the particle ("none" before its first tick).
GenerateParticleObject(type, isDust, src, meshScale, n, cfg, sd) ==
  LET h == cfg.treeHeight
      t == Pow085(Rand(sd, n, 1))
      ty == TDiv(t * h, 1000) - TDiv(h, 2)
      rFree == TDiv(cfg.treeRadius * (1000 - t), 1000)
      rMax == IF rFree < 800 THEN 800 ELSE rFree
      angle == TDiv(t * 45 * PiM, 1000) + TDiv(Rand(sd, n, 2) * PiM, 1000)
      r == TDiv(rMax * (800 + TDiv(Rand(sd, n, 3) * 400, 1000)), 1000)
      rScatter == IF isDust THEN 15000 + Rand(sd, n, 4) * 25
                  ELSE 10000 + Rand(sd, n, 4) * 15
      theta == TDiv(Rand(sd, n, 5) * TwoPiM, 1000)
      cosPhi == 2 * Rand(sd, n, 6) - 1000
      ring == TDiv(rScatter * SinAcos(cosPhi), 1000)
  IN [type |-> type, isDust |-> isDust, src |-> src, id |-> FirstMeshId + n,
      posTree |-> V3(TDiv(CosM(angle) * r, 1000), ty,
                     TDiv(SinM(angle) * r, 1000)),
      posScatter |-> V3(TDiv(ring * CosM(theta), 1000),
                        TDiv(ring * SinM(theta), 1000),
                        TDiv(rScatter * cosPhi, 1000)),
      posDate |-> V3(0, 0, 0),
      baseScale |-> meshScale,
      spinSpeed |-> V3((Rand(sd, n, 7) - 500) * 2, (Rand(sd, n, 8) - 500) * 2,
                       (Rand(sd, n, 9) - 500) * 2),
      position |-> V3(0, 0, 0), scale |-> meshScale,
      rotation |-> [x |-> 0, y |-> 0],
      target |-> "none", speed |-> 0, spin |-> "none", scaleTo |-> "none"]

DateOffByOne(i, p) ==
  IF i + 1 < Len(datePositions) THEN datePositions[i + 1]
  ELSE MultiplyScalar(p.posScatter, 15, 10)

\* The date target of the GOLD particle built at loop index i (from 0).
GoldDate(i, p) ==
  IF i < Len(datePositions) THEN datePositions[i + 1]
  ELSE MultiplyScalar(p.posScatter, 15, 10)

\* One iteration of the main loop of createBaseParticles.
GoldParticle(i, cfg, sd) ==
  LET s == 300 + TDiv(Rand(sd, i + 1, 10) * 400, 1000)
      p == GenerateParticleObject("GOLD", FALSE, 0, s, i + 1, cfg, sd)
  IN [p EXCEPT !.posDate = GoldDate(i, p)]

\* One iteration of the dust loop: the mesh keeps its default scale 1.
DustParticle(i, cfg, sd) ==
  LET p == GenerateParticleObject("DUST", TRUE, 0, 1000, cfg.count + i + 1,
                                  cfg, sd)
  IN [p EXCEPT !.posDate = MultiplyScalar(p.posScatter, 2, 1)]

\* The particle built by the load callback for payload src when the list
\* holds n particles: the mesh is a new group of scale 1 (its id is larger
\* than every earlier one; only the id of a dust mesh is ever read).
PhotoParticle(src, n, cfg, sd) ==
  LET p == GenerateParticleObject("PHOTO", FALSE, src, 1000, n + 1, cfg, sd)
  IN [p EXCEPT !.posDate = MultiplyScalar(p.posScatter, 12, 10)]

\* createBaseParticles: the GOLD particles, then the DUST particles.
CreateBaseParticles(cfg, sd) ==
  [k \in 1..(cfg.count + cfg.dustCount) |->
     IF k <= cfg.count THEN GoldParticle(k - 1, cfg, sd)
     ELSE DustParticle(k - 1 - cfg.count, cfg, sd)]

Unshift(ps, p) == <<p>> \o ps

\* particlesRef.current.push(p)
Push(ps, p) == Append(ps, p)

\* particlesRef.current.find(p => p.type === 'PHOTO'): index of the first
\* match, 0 for undefined.
FocusTarget(ps) ==
  IF \E i \in 1..Len(ps) : ps[i].type = "PHOTO"
  THEN CHOOSE i \in 1..Len(ps) :
         /\ ps[i].type = "PHOTO"
         /\ \A j \in 1..(i - 1) : ps[j].type # "PHOTO"
  ELSE 0

\* new Vector3(0, 2, 32).applyMatrix4(inverse of mainGroup.matrixWorld): the
\* group is rotated by Rx(rot.x) Ry(rot.y) about the origin, so the inverse
\* is Ry(-rot.y) Rx(-rot.x).  rot is in micro-radians.
CameraLocal(rot) ==
  LET p == TDiv(rot.x, 1000)
      a == TDiv(rot.y, 1000)
      y1 == TDiv(2000 * CosM(p) + 32000 * SinM(p), 1000)
      z1 == TDiv(32000 * CosM(p) - 2000 * SinM(p), 1000)
  IN V3(-TDiv(z1 * SinM(a), 1000), y1, TDiv(z1 * CosM(a), 1000))

\* The position target of the particle at index i.
TargetPos(p, i, focus, m, rendered) ==
  IF m = "SCATTER" THEN p.posScatter
  ELSE IF m = "DATE" THEN p.posDate
  ELSE IF m = "FOCUS"
  THEN (IF i = focus THEN CameraLocal(rendered) ELSE p.posScatter)
  ELSE p.posTree

\* The scale target of the particle at index i; elapsed is
\* clock.elapsedTime in milliseconds.
TargetScale(p, i, focus, m, elapsed) ==
  IF p.isDust
  THEN (IF m = "TREE" THEN 0
        ELSE TDiv(p.baseScale * (800 + TDiv(400 * SinM(elapsed * 3 + p.id * 1000), 1000)), 1000))
  ELSE IF m = "FOCUS" /\ i = focus THEN 4500
  ELSE IF m = "DATE" THEN 500
  ELSE IF m = "SCATTER" /\ p.type = "PHOTO" THEN 2000
  ELSE p.baseScale

\* The spin step on mesh.rotation (micro-radians): x and y advance by
\* spinSpeed * dt * 0.5 outside DATE; in DATE only y is scaled by 0.95.
Spin(r, ss, m, dt) ==
  IF m # "DATE"
  THEN [x |-> r.x + TDiv(ss.x * dt, 2), y |-> r.y + TDiv(ss.y * dt, 2)]
  ELSE [x |-> r.x, y |-> TDiv(r.y * 95, 100)]

\* The body of the forEach in updateParticles for the particle at index i;
\* rendered is the rotation of the main group at the last render.
UpdateParticle(p, i, focus, m, dt, elapsed, rendered) ==
  LET isFocus == m = "FOCUS" /\ i = focus
      lerpSpeed == IF isFocus THEN 60 ELSE 25
  IN [p EXCEPT
        !.position = LerpV(p.position, TargetPos(p, i, focus, m, rendered),
                           lerpSpeed, dt),
        !.rotation = Spin(p.rotation, p.spinSpeed, m, dt),
        !.scale = Lerp(p.scale, TargetScale(p, i, focus, m, elapsed), 50, dt),
        !.target = IF m = "SCATTER" THEN "posScatter"
                   ELSE IF m = "DATE" THEN "posDate"
                   ELSE IF m = "FOCUS"
                   THEN (IF i = focus THEN "camera" ELSE "posScatter")
                   ELSE "posTree",
        !.speed = lerpSpeed,
        !.spin = IF m # "DATE" THEN "advance" ELSE "decay",
        !.scaleTo = IF p.isDust THEN (IF m = "TREE" THEN "0" ELSE "twinkle")
                    ELSE IF isFocus THEN "4.5"
                    ELSE IF m = "DATE" THEN "0.5"
                    ELSE IF m = "SCATTER" /\ p.type = "PHOTO" THEN "2.0"
                    ELSE "base"]

UpdateParticles(ps, m, dt, elapsed, rendered) ==
  [i \in 1..Len(ps) |->
     UpdateParticle(ps[i], i, FocusTarget(ps), m, dt, elapsed, rendered)]

\* ---------------------------------------------------------- photo intake
SliceAll(imgs, last) == imgs

\* images.slice(lastProcessedImageCount.current)
NewImages(imgs, last) == SubSeq(imgs, last + 1, Len(imgs))

\* ------------------------------------------------------- detector results
Wrist == Pt(500, 800)
Knuckles == {Pt(0, 250), Pt(1000, 750)}
\* (lm[4], lm[8]): pinch distance 0.05 exactly, 0.04, far apart, 0.02.
ThumbIndex ==
  { <<Pt(530, 740), Pt(500, 700)>>, <<Pt(524, 732), Pt(500, 700)>>,
    <<Pt(530, 740), Pt(500, 300)>>, <<Pt(500, 320), Pt(500, 300)>> }
\* (lm[12], lm[16], lm[20]) at wrist distances 0.1, 0.2, 0.3, 0.4 and 0.5.
OtherTips ==
  { <<Pt(500, 700), Pt(500, 700), Pt(500, 700)>>,
    <<Pt(320, 560), Pt(500, 600), Pt(500, 600)>>,
    <<Pt(320, 560), Pt(500, 400), Pt(500, 400)>>,
    <<Pt(500, 300), Pt(500, 300), Pt(500, 300)>> }

MkHand(n, thumb, index, knuckle, tips) ==
  [len |-> n,
   pt |-> [i \in LmIdx |->
             CASE i = 0 -> Wrist
               [] i = 4 -> thumb
               [] i = 8 -> index
               [] i = 9 -> knuckle
               [] i = 12 -> tips[1]
               [] i = 16 -> tips[2]
               [] OTHER -> tips[3]]]

\* Complete first hands (21 landmarks).
Hands ==
  { MkHand(21, ti[1], ti[2], k, o) :
      ti \in ThumbIndex, k \in Knuckles, o \in OtherTips }

\* The first hands of the two-hand frames.
PairedHands == { h \in Hands : h.pt[9] = Pt(0, 250) }

RestTips == <<Pt(500, 600), Pt(500, 600), Pt(500, 600)>>

\* Complete second hands: near the first hand's tips (and pinching), on the
\* 0.12 boundary for the thumbs, on it for the index fingers.
SecondHands ==
  { MkHand(21, Pt(560, 732), Pt(540, 700), Pt(500, 500), RestTips),
    MkHand(21, Pt(644, 732), Pt(540, 700), Pt(500, 500), RestTips),
    MkHand(21, Pt(560, 732), Pt(620, 700), Pt(500, 500), RestTips) }

\* Arrays cut short: the lengths at which one more read index disappears.
ShortLens == {0, 4, 8, 9, 12, 16, 20}
ShortHands ==
  { MkHand(n, Pt(524, 732), Pt(500, 700), Pt(0, 250), RestTips) : n \in ShortLens }

FullHand == MkHand(21, Pt(524, 732), Pt(500, 700), Pt(0, 250), RestTips)
NearHand == MkHand(21, Pt(560, 732), Pt(540, 700), Pt(500, 500), RestTips)

WellFormedFrames ==
  {<<>>} \cup { <<h>> : h \in Hands }
         \cup { <<h, h2>> : h \in PairedHands, h2 \in SecondHands }

MalformedFrames ==
  { <<h>> : h \in ShortHands }
    \cup { <<FullHand, h2>> : h2 \in ShortHands }
    \cup { <<h, NearHand>> : h \in ShortHands }

Frames == WellFormedFrames \cup MalformedFrames

WellFormed(result) == \A k \in 1..Len(result) : result[k].len = 21

\* One well-formed frame per branch of processGestures, and one that raises.
SampleFrames ==
  { <<>>,
    <<MkHand(21, Pt(524, 732), Pt(500, 700), Pt(0, 250), RestTips),
      MkHand(21, Pt(560, 732), Pt(540, 700), Pt(500, 500), RestTips)>>,
    <<MkHand(21, Pt(524, 732), Pt(500, 700), Pt(1000, 750), RestTips)>>,
    <<MkHand(21, Pt(530, 740), Pt(500, 700), Pt(0, 250),
             <<Pt(500, 700), Pt(500, 700), Pt(500, 700)>>)>>,
    <<MkHand(21, Pt(530, 740), Pt(500, 300), Pt(1000, 750),
             <<Pt(500, 300), Pt(500, 300), Pt(500, 300)>>)>>,
    <<MkHand(21, Pt(530, 740), Pt(500, 700), Pt(0, 250),
             <<Pt(320, 560), Pt(500, 400), Pt(500, 400)>>)>>,
    <<MkHand(4, Pt(524, 732), Pt(500, 700), Pt(0, 250), RestTips)>> }

\* ------------------------------------------------------------------- state
VARIABLES
  mode,              \* App: useState<AppMode>
  handData,          \* App: useState<HandData>
  images,            \* App: useState<string[]>, payloads named by serial number
  uiVisible,         \* App: useState(true)
  isMobileDevice,    \* App: useState(false), set from the user agent
  loading,           \* App: useState(true)
  initPc,            \* position of the async initMediaPipe
  landmarkerReady,   \* landmarkerRef.current !== null
  listener,          \* "loadeddata" listener registered on the video element
  predictPending,    \* predict callbacks queued by requestAnimationFrame
  raised,            \* an uncaught TypeError has left predict
  frame,             \* the result handed to the last processGestures call
  prevMode,          \* Mode before the last processGestures call
  runStart,          \* (Mode, x, y) after the last frame that had a hand
  runLen,            \* consecutive no-hand frames processed since then
  memo,              \* one earlier processGestures call, kept for comparison
  phase,             \* the view: "mounted" or "unmounted"
  animateEnv,        \* props bound in the closure that animate calls
  rafAnimate,        \* id of the queued animate callback, 0 when none
  frameId,           \* the frameId constant the effect cleanup cancels
  ticks,             \* animate executions so far
  rotation,          \* rotationRef.current
  particles,         \* particlesRef.current
  tickMode,          \* Mode read by the last animate tick
  tickDt,            \* the delta of the last animate tick, in milliseconds
  elapsed,           \* clockRef.current.elapsedTime, in milliseconds
  config,            \* CONFIG.particles
  seed,              \* seed of the run's Math.random draws
  lastProcessedImageCount,
  decoding,          \* TextureLoader requests in flight, per payload
  failed             \* payloads whose decode failed

vars ==
  <<mode, handData, images, uiVisible, isMobileDevice, loading, initPc,
    landmarkerReady, listener, predictPending, raised, frame, prevMode,
    runStart, runLen, memo, phase, animateEnv, rafAnimate, frameId, ticks, rotation,
    particles, tickMode, tickDt, elapsed, config, seed,
    lastProcessedImageCount, decoding, failed>>

appVars == <<mode, handData>>
gestureHist == <<frame, prevMode, runStart, runLen, memo>>
detectorVars == <<loading, initPc, landmarkerReady, listener>>
photoVars == <<images, uiVisible, lastProcessedImageCount, decoding, failed>>
loopVars == <<predictPending, raised>>
engineVars ==
  <<phase, animateEnv, rafAnimate, frameId, ticks, rotation, tickMode, tickDt,
    elapsed, config, seed>>

InitialHandData == [detected |-> FALSE, x |-> 0, y |-> 0, isHeart |-> FALSE]

\* No call recorded yet.
NoMemo ==
  [state |-> "none", frame |-> <<>>, prevMode |-> "TREE", mode |-> "TREE",
   hand |-> InitialHandData, later |-> 0]

\* The record after a processGestures call that took m and result to out:
\* an armed memo keeps the call, a set memo counts the calls after it.
Remember(mm, result, m, out) ==
  IF mm.state = "armed"
  THEN [state |-> "set", frame |-> result, prevMode |-> m, mode |-> out.mode,
        hand |-> out.hand, later |-> 0]
  ELSE IF mm.state = "set" /\ mm.later < 2
  THEN [mm EXCEPT !.later = @ + 1]
  ELSE mm

Payloads == 1..MaxImages

\* The milliseconds Clock.getDelta returns on a tick after the first.
Dts == {16, 33}

\* CONFIG.particles: the counts are the model's bounds, the tree measures a
\* sample.
Configs ==
  { [count |-> GoldCount, dustCount |-> DustCount, treeHeight |-> 24000,
     treeRadius |-> 8000] }

\* The seed of the runs of the whole program.
Seeds == {0}

\* The seeds of the runs that exercise the engine's functions.
EngineSeeds == {0, 4}

\* The state after the first commit: App and Scene3D have rendered with the
\* initial state and their mount effects have run (the user agent is tested,
\* the base particles exist, the first animate call has requested frame 1 and
\* ticked with the zero delta of a clock just started, initMediaPipe is
\* awaiting the landmarker).
Init ==
  /\ mode = "TREE"
  /\ handData = InitialHandData
  /\ images = <<>>
  /\ uiVisible = TRUE
  /\ isMobileDevice \in BOOLEAN
  /\ loading = TRUE
  /\ initPc = "create"
  /\ landmarkerReady = FALSE
  /\ listener = FALSE
  /\ predictPending = 0
  /\ raised = FALSE
  /\ frame = <<>>
  /\ prevMode = "TREE"
  /\ runStart = [mode |-> "TREE", x |-> 0, y |-> 0]
  /\ runLen = 0
  /\ memo = NoMemo
  /\ phase = "mounted"
  /\ animateEnv = [mode |-> "TREE", handData |-> InitialHandData]
  /\ rafAnimate = 1
  /\ frameId = 1
  /\ ticks = 1
  /\ config \in Configs
  /\ seed \in Seeds
  /\ rotation = UpdateRotation([x |-> 0, y |-> 0], 0, "TREE", InitialHandData)
  /\ particles = UpdateParticles(CreateBaseParticles(config, seed), "TREE", 0,
                                 0, [x |-> 0, y |-> 0])
  /\ tickMode = "TREE"
  /\ tickDt = 0
  /\ elapsed = 0
  /\ lastProcessedImageCount = 0
  /\ decoding = [p \in Payloads |-> 0]
  /\ failed = {}

\* ------------------------------------------------------ detector and loop
\* HandLandmarker.createFromOptions resolves: landmarkerRef.current is set.
CreateLandmarkerOk ==
  /\ initPc = "create"
  /\ landmarkerReady' = TRUE
  /\ initPc' = "camera"
  /\ UNCHANGED <<loading, listener>>
  /\ UNCHANGED <<appVars, gestureHist, photoVars, engineVars, isMobileDevice,
                 predictPending, raised, particles>>

\* FilesetResolver or createFromOptions rejects: catch, then finally.
CreateLandmarkerFail ==
  /\ initPc = "create"
  /\ initPc' = "failed"
  /\ loading' = FALSE
  /\ UNCHANGED <<landmarkerReady, listener>>
  /\ UNCHANGED <<appVars, gestureHist, photoVars, engineVars, isMobileDevice,
                 predictPending, raised, particles>>

\* getUserMedia resolves: the listener is added when the video element exists.
OpenCameraOk ==
  /\ initPc = "camera"
  /\ initPc' = "done"
  /\ listener' = (phase # "unmounted")
  /\ loading' = FALSE
  /\ UNCHANGED landmarkerReady
  /\ UNCHANGED <<appVars, gestureHist, photoVars, engineVars, isMobileDevice,
                 predictPending, raised, particles>>

OpenCameraFailListens ==
  /\ initPc = "camera"
  /\ initPc' = "failed"
  /\ loading' = FALSE
  /\ listener' = TRUE
  /\ UNCHANGED landmarkerReady
  /\ UNCHANGED <<appVars, gestureHist, photoVars, engineVars, isMobileDevice,
                 predictPending, raised, particles>>

\* getUserMedia is absent or rejects: the listener is never added.
OpenCameraFail ==
  /\ initPc = "camera"
  /\ initPc' = "failed"
  /\ loading' = FALSE
  /\ UNCHANGED <<landmarkerReady, listener>>
  /\ UNCHANGED <<appVars, gestureHist, photoVars, engineVars, isMobileDevice,
                 predictPending, raised, particles>>

\* The body of predict, entered with `queued` callbacks still in the queue and
\* `result` returned by detectForVideo.
Predict(result, queued) ==
  IF phase = "unmounted" \/ ~landmarkerReady
  THEN /\ predictPending' = queued
       /\ UNCHANGED <<appVars, gestureHist, raised>>
  ELSE IF Raises(result)
  THEN /\ predictPending' = queued
       /\ raised' = TRUE
       /\ frame' = result
       /\ runStart' = [mode |-> mode, x |-> handData.x, y |-> handData.y]
       /\ runLen' = 0
       /\ UNCHANGED <<appVars, prevMode, memo>>
  ELSE LET out == ProcessGestures(result, mode, handData)
       IN /\ mode' = out.mode
          /\ handData' = out.hand
          /\ frame' = result
          /\ prevMode' = mode
          /\ IF HasHand(result, 0)
             THEN /\ runStart' = [mode |-> out.mode, x |-> out.hand.x, y |-> out.hand.y]
                  /\ runLen' = 0
             ELSE /\ runStart' = runStart
                  /\ runLen' = IF runLen < MaxRun THEN runLen + 1 ELSE runLen
          /\ memo' = Remember(memo, result, mode, out)
          /\ predictPending' = queued + 1
          /\ UNCHANGED raised

\* The video element fires "loadeddata": predict runs as its listener.
LoadedData(result) ==
  /\ listener
  /\ predictPending < MaxPending
  /\ Predict(result, predictPending)
  /\ UNCHANGED <<detectorVars, photoVars, engineVars, isMobileDevice, particles>>

\* A queued requestAnimationFrame(predict) callback runs.
PredictFrame(result) ==
  /\ predictPending > 0
  /\ Predict(result, predictPending - 1)
  /\ UNCHANGED <<detectorVars, photoVars, engineVars, isMobileDevice, particles>>

\* The next processGestures call is the one to keep for comparison.
Arm ==
  /\ memo.state = "none"
  /\ memo' = [memo EXCEPT !.state = "armed"]
  /\ UNCHANGED <<frame, prevMode, runStart, runLen>>
  /\ UNCHANGED <<appVars, detectorVars, photoVars, engineVars, loopVars,
                 isMobileDevice, particles>>

\* ------------------------------------------------------------ tick loop
\* animate, run as the queued frame callback: it requests the next frame,
\* then updateRotation and updateParticles run with the closure's props.
Animate(dt) ==
  /\ rafAnimate # 0
  /\ ticks < MaxTicks
  /\ rafAnimate' = ticks + 1
  /\ ticks' = ticks + 1
  /\ rotation' = UpdateRotation(rotation, dt, animateEnv.mode, animateEnv.handData)
  /\ tickDt' = dt
  /\ elapsed' = elapsed + dt
  /\ particles' = UpdateParticles(particles, animateEnv.mode, dt, elapsed',
                                  rotation)
  /\ tickMode' = animateEnv.mode
  /\ UNCHANGED <<phase, animateEnv, frameId, config, seed>>
  /\ UNCHANGED <<appVars, gestureHist, detectorVars, photoVars, loopVars,
                 isMobileDevice>>

\* The view is torn down: the effect cleanup cancels frameId, and React
\* clears videoRef.current.
Unmount ==
  /\ phase = "mounted"
  /\ phase' = "unmounted"
  /\ rafAnimate' = IF rafAnimate = frameId THEN 0 ELSE rafAnimate
  /\ UNCHANGED <<animateEnv, frameId, ticks, rotation, tickMode, tickDt,
                 elapsed, config, seed, particles>>
  /\ UNCHANGED <<appVars, gestureHist, detectorVars, photoVars, loopVars,
                 isMobileDevice>>

\* ---------------------------------------------------------- photo intake
\* reader.onload of handleImageUpload: one payload is appended to images.
Upload ==
  /\ phase = "mounted"
  /\ Len(images) < MaxImages
  /\ images' = Append(images, Len(images) + 1)
  /\ uiVisible' = IF isMobileDevice THEN FALSE ELSE uiVisible
  /\ UNCHANGED <<lastProcessedImageCount, decoding, failed>>
  /\ UNCHANGED <<appVars, gestureHist, detectorVars, engineVars, loopVars,
                 isMobileDevice, particles>>

\* useEffect([images]) after a render with more images than processed.
ImagesEffect ==
  /\ phase = "mounted"
  /\ Len(images) > lastProcessedImageCount
  /\ LET newImages == NewImages(images, lastProcessedImageCount)
     IN decoding' = [p \in Payloads |->
                       decoding[p]
                         + Cardinality({i \in 1..Len(newImages) : newImages[i] = p})]
  /\ lastProcessedImageCount' = Len(images)
  /\ UNCHANGED <<images, uiVisible, failed>>
  /\ UNCHANGED <<appVars, gestureHist, detectorVars, engineVars, loopVars,
                 isMobileDevice, particles>>

\* The TextureLoader callback for payload p: a PHOTO particle is pushed.
DecodeDone(p) ==
  /\ decoding[p] > 0
  /\ decoding' = [decoding EXCEPT ![p] = @ - 1]
  /\ particles' = Push(particles,
                        PhotoParticle(p, Len(particles), config, seed))
  /\ UNCHANGED <<images, uiVisible, lastProcessedImageCount, failed>>
  /\ UNCHANGED <<appVars, gestureHist, detectorVars, engineVars, loopVars,
                 isMobileDevice>>

DecodeFailAbortsAll(p) ==
  /\ decoding[p] > 0
  /\ decoding' = [q \in Payloads |-> 0]
  /\ failed' = failed \cup {p}
  /\ UNCHANGED <<images, uiVisible, lastProcessedImageCount>>
  /\ UNCHANGED <<appVars, gestureHist, detectorVars, engineVars, loopVars,
                 isMobileDevice, particles>>

\* The load of payload p fails: no onError callback was given.
DecodeFail(p) ==
  /\ decoding[p] > 0
  /\ decoding' = [decoding EXCEPT ![p] = @ - 1]
  /\ failed' = failed \cup {p}
  /\ UNCHANGED <<images, uiVisible, lastProcessedImageCount>>
  /\ UNCHANGED <<appVars, gestureHist, detectorVars, engineVars, loopVars,
                 isMobileDevice, particles>>

\* ---------------------------------------------------------- specifications
\* The detection loop alone, over every frame of Frames.
NextGesture ==
  \/ CreateLandmarkerOk
  \/ CreateLandmarkerFail
  \/ OpenCameraOk
  \/ OpenCameraFail
  \/ \E f \in Frames : LoadedData(f)
  \/ \E f \in Frames : PredictFrame(f)

SpecGesture == Init /\ [][NextGesture]_vars

\* The whole program, the detector yielding the frames of SampleFrames.
Next ==
  \/ CreateLandmarkerOk
  \/ CreateLandmarkerFail
  \/ OpenCameraOk
  \/ OpenCameraFail
  \/ \E f \in SampleFrames : LoadedData(f)
  \/ \E f \in SampleFrames : PredictFrame(f)
  \/ \E dt \in Dts : Animate(dt)
  \/ Unmount
  \/ Upload
  \/ ImagesEffect
  \/ \E p \in Payloads : DecodeDone(p)
  \/ \E p \in Payloads : DecodeFail(p)

Spec == Init /\ [][Next]_vars

\* Photo intake and the tick loop alone: uploads, effect runs, decode
\* completions and failures, ticks and the teardown, in every interleaving.
NextPhotos ==
  \/ \E dt \in Dts : Animate(dt)
  \/ Unmount
  \/ Upload
  \/ ImagesEffect
  \/ \E p \in Payloads : DecodeDone(p)
  \/ \E p \in Payloads : DecodeFail(p)

SpecPhotos == Init /\ [][NextPhotos]_vars

\* createBaseParticles as a function of CONFIG.particles and of the random
\* draws, with as many GOLD particles as the mosaic has cells, or a few less
\* or more, followed by the photo intake.
CreateConfigs ==
  { [count |-> Len(datePositions) + d, dustCount |-> DustCount,
     treeHeight |-> 24000, treeRadius |-> 8000] : d \in (-MaxExtra)..MaxExtra }

\* Scene3D has rendered and its mount effect has not run yet.
InitCreate ==
  /\ mode = "TREE"
  /\ handData = InitialHandData
  /\ images = <<>>
  /\ uiVisible = TRUE
  /\ isMobileDevice \in BOOLEAN
  /\ loading = TRUE
  /\ initPc = "create"
  /\ landmarkerReady = FALSE
  /\ listener = FALSE
  /\ predictPending = 0
  /\ raised = FALSE
  /\ frame = <<>>
  /\ prevMode = "TREE"
  /\ runStart = [mode |-> "TREE", x |-> 0, y |-> 0]
  /\ runLen = 0
  /\ memo = NoMemo
  /\ phase = "created"
  /\ animateEnv = [mode |-> "TREE", handData |-> InitialHandData]
  /\ rafAnimate = 0
  /\ frameId = 0
  /\ ticks = 0
  /\ config \in CreateConfigs
  /\ seed \in EngineSeeds
  /\ rotation = [x |-> 0, y |-> 0]
  /\ particles = <<>>
  /\ tickMode = "TREE"
  /\ tickDt = 0
  /\ elapsed = 0
  /\ lastProcessedImageCount = 0
  /\ decoding = [p \in Payloads |-> 0]
  /\ failed = {}

\* The mount effect of Scene3D: createBaseParticles, then the first animate
\* call, which requests frame 1 and ticks with the zero delta of a clock just
\* started.
Mount ==
  /\ phase = "created"
  /\ phase' = "mounted"
  /\ rafAnimate' = 1
  /\ frameId' = 1
  /\ ticks' = 1
  /\ rotation' = UpdateRotation(rotation, 0, animateEnv.mode, animateEnv.handData)
  /\ particles' = UpdateParticles(CreateBaseParticles(config, seed),
                                  animateEnv.mode, 0, 0, rotation)
  /\ tickMode' = animateEnv.mode
  /\ UNCHANGED <<animateEnv, tickDt, elapsed, config, seed>>
  /\ UNCHANGED <<appVars, gestureHist, detectorVars, photoVars, loopVars,
                 isMobileDevice>>

NextCreate ==
  \/ Mount
  \/ Upload
  \/ ImagesEffect
  \/ \E p \in Payloads : DecodeDone(p)
  \/ \E p \in Payloads : DecodeFail(p)

SpecCreate == InitCreate /\ [][NextCreate]_vars

\* Detector initialisation with both outcomes of each step, the detection
\* loop over SampleFrames, and the tick loop.
NextInit ==
  \/ CreateLandmarkerOk
  \/ CreateLandmarkerFail
  \/ OpenCameraOk
  \/ OpenCameraFail
  \/ \E result \in SampleFrames : LoadedData(result)
  \/ \E result \in SampleFrames : PredictFrame(result)
  \/ \E dt \in Dts : Animate(dt)
  \/ Unmount

SpecInit == Init /\ [][NextInit]_vars

\* The detection loop over SampleFrames, with one call kept for comparison.
NextPurity ==
  \/ CreateLandmarkerOk
  \/ OpenCameraOk
  \/ \E result \in SampleFrames : LoadedData(result)
  \/ \E result \in SampleFrames : PredictFrame(result)
  \/ Arm

SpecPurity == Init /\ [][NextPurity]_vars

\* updateRotation and updateParticles as functions of their inputs: the
\* closure may hold any Mode and pointer, the formation may be fresh or
\* settled by earlier ticks, and a tick may follow a long pause.
Modes == {"TREE", "SCATTER", "FOCUS", "DATE"}
EngineDts == {16, 100, 180, 250}
EngineHands ==
  { InitialHandData,
    [detected |-> TRUE, x |-> 600, y |-> -400, isHeart |-> FALSE] }
EngineRotations == { [x |-> 0, y |-> 0], [x |-> 300000, y |-> -2000000] }

\* A particle as earlier ticks may have left it: at its scatter target,
\* spun, and at the scale of its kind (dust hidden, photo in focus, gold in
\* the mosaic).
Settle(p) ==
  [p EXCEPT !.position = p.posScatter,
            !.rotation = [x |-> 700000, y |-> -300000],
            !.scale = IF p.isDust THEN 0
                      ELSE IF p.type = "PHOTO" THEN 4500 ELSE 500]

InitEngine ==
  /\ mode \in Modes
  /\ handData \in EngineHands
  /\ images = <<1>>
  /\ uiVisible = TRUE
  /\ isMobileDevice = FALSE
  /\ loading = TRUE
  /\ initPc = "create"
  /\ landmarkerReady = FALSE
  /\ listener = FALSE
  /\ predictPending = 0
  /\ raised = FALSE
  /\ frame = <<>>
  /\ prevMode = "TREE"
  /\ runStart = [mode |-> "TREE", x |-> 0, y |-> 0]
  /\ runLen = 0
  /\ memo = NoMemo
  /\ phase = "mounted"
  /\ animateEnv = [mode |-> mode, handData |-> handData]
  /\ rafAnimate = 1
  /\ frameId = 1
  /\ ticks = 1
  /\ config \in Configs
  /\ seed \in EngineSeeds
  /\ rotation \in EngineRotations
  /\ \E settled \in BOOLEAN :
       LET base == CreateBaseParticles(config, seed)
           ps == Push(base, PhotoParticle(1, Len(base), config, seed))
       IN particles = [i \in 1..Len(ps) |->
                         IF settled THEN Settle(ps[i]) ELSE ps[i]]
  /\ tickMode = "TREE"
  /\ tickDt = 0
  /\ elapsed = 0
  /\ lastProcessedImageCount = 1
  /\ decoding = [p \in Payloads |-> 0]
  /\ failed = {}

NextEngine == \E dt \in EngineDts : Animate(dt)

SpecEngine == InitEngine /\ [][NextEngine]_vars

\* ------------------------------------------------------------- properties
\* The last result handed to processGestures had at least n hands, each with
\* all 21 landmarks.
Complete(n) == Len(frame) >= n /\ WellFormed(frame)

\* Both two-hand distances of the last frame are below 0.12.
HeartShown ==
  /\ Len(frame) = 2
  /\ DistThumbs(frame[1], frame[2]) < 120
  /\ DistIndices(frame[1], frame[2]) < 120

\* C1: a complete two-hand frame whose thumb-tip and index-tip distances are
\* both below 0.12 leaves Mode = DATE, whatever Mode was before and whatever
\* the first hand's pinch distance and spread are.
C1_HeartPriority == (Complete(2) /\ HeartShown) => mode = "DATE"

\* A heart frame whose first hand also pinches, processed from Mode TREE.
C1_Witness ==
  /\ Complete(2) /\ HeartShown
  /\ PinchDist(frame[1]) < 50
  /\ prevMode = "TREE"
  /\ mode = "DATE"

\* C2: with a complete hand, no heart, no pinch and 0.2 <= spread <= 0.4,
\* Mode after processGestures is Mode before it.
C2_DeadZone ==
  (/\ Complete(1)
   /\ ~HeartShown
   /\ PinchDist(frame[1]) >= 50
   /\ AvgDist(frame[1]) >= 200
   /\ AvgDist(frame[1]) <= 400) => mode = prevMode

\* A frame with spread exactly 0.4 processed while Mode was FOCUS.
C2_Witness ==
  /\ Complete(1) /\ ~HeartShown
  /\ PinchDist(frame[1]) >= 50
  /\ AvgDist(frame[1]) = 400
  /\ prevMode = "FOCUS"
  /\ mode = "FOCUS"

\* C3: during a run of no-hand frames Mode, x and y keep the values they had
\* before the run and detected is false.
C3_NoHandRun ==
  runLen > 0 =>
    /\ frame = <<>>
    /\ mode = runStart.mode
    /\ handData.detected = FALSE
    /\ handData.x = runStart.x
    /\ handData.y = runStart.y

\* Two or more no-hand frames in a row after a hand set Mode and the pointer.
C3_Witness ==
  /\ runLen >= 2
  /\ mode = "SCATTER"
  /\ handData.x = 1000
  /\ handData.y = 500
  /\ ~handData.detected

\* C5: processGestures never raises, malformed landmark data included.
C5_NeverRaises == ~raised

\* C8: with a complete first hand, no heart and first-hand pinch distance below
\* 0.05, Mode is FOCUS whatever the spread; without a first-hand pinch (a
\* second-hand pinch included) FOCUS is not written.
C8_PinchRule ==
  /\ (Complete(1) /\ ~HeartShown /\ PinchDist(frame[1]) < 50) => mode = "FOCUS"
  /\ (Complete(1) /\ ~HeartShown /\ PinchDist(frame[1]) >= 50 /\ mode = "FOCUS")
       => prevMode = "FOCUS"

\* A first-hand pinch with spread below 0.2, processed from Mode SCATTER.
C8_Witness ==
  /\ Complete(1) /\ ~HeartShown
  /\ PinchDist(frame[1]) < 50
  /\ AvgDist(frame[1]) < 200
  /\ prevMode = "SCATTER"
  /\ mode = "FOCUS"

\* C10: after a frame with a complete first hand, detected is true and
\* x = 2 * (h.x - 0.5), y = 2 * (h.y - 0.5) for h = landmark 9 of that hand;
\* x and y are within [-1, 1] when h is within [0, 1].
C10_Pointer ==
  Complete(1) =>
    LET h == frame[1].pt[9]
    IN /\ handData.detected
       /\ handData.x = 2 * (h.x - 500)
       /\ handData.y = 2 * (h.y - 500)
       /\ (h.x \in 0..1000 /\ h.y \in 0..1000) =>
            (handData.x \in -1000..1000 /\ handData.y \in -1000..1000)

\* The pointer at an edge of the image while the heart rule set DATE.
C10_Witness ==
  /\ Complete(2) /\ HeartShown
  /\ mode = "DATE"
  /\ handData.detected
  /\ handData.x = -1000
  /\ handData.y = -500

\* C4: every animate tick resolves targets and orientation with the Mode the
\* classifier wrote last.
C4_EngineUsesLatestMode == [][ticks' # ticks => tickMode' = mode]_vars

\* C6: once the view is unmounted no further animate tick executes.
C6_NoTickAfterUnmount == [][phase = "unmounted" => ticks' = ticks]_vars

HasPhoto(ps) == \E i \in 1..Len(ps) : ps[i].type = "PHOTO"
LastPhoto(ps) ==
  CHOOSE i \in 1..Len(ps) :
    /\ ps[i].type = "PHOTO"
    /\ \A j \in (i + 1)..Len(ps) : ps[j].type # "PHOTO"

\* C7: on every tick in FOCUS mode with a PHOTO particle in the list, the
\* PHOTO particle added last is the one focus subject and every other
\* particle is sent to its scatter target.
C7_FocusNewestPhoto ==
  [][(ticks' # ticks /\ mode = "FOCUS" /\ HasPhoto(particles)) =>
       \A i \in 1..Len(particles) :
         particles'[i].target =
           IF i = LastPhoto(particles) THEN "camera" ELSE "posScatter"]_vars

PhotoCount(k) ==
  Cardinality({i \in 1..Len(particles) :
                 particles[i].type = "PHOTO" /\ particles[i].src = k})

\* Every payload handed to the loader is in flight, failed, or one particle.
Accounted ==
  \A k \in Payloads :
    PhotoCount(k) + decoding[k] + (IF k \in failed THEN 1 ELSE 0)
      = IF k <= lastProcessedImageCount THEN 1 ELSE 0

\* The list only grows and its particles keep their kind and payload.
NoRemoval ==
  /\ Len(particles') >= Len(particles)
  /\ \A i \in 1..Len(particles) :
       /\ particles'[i].type = particles[i].type
       /\ particles'[i].src = particles[i].src

\* C9: each payload is decoded once and yields at most one PHOTO particle,
\* exactly one once its decode has completed, and no particle is removed.
C9_OneToOne == []Accounted /\ [][NoRemoval]_vars

\* Two payloads decoded in the opposite order, with ticks in between.
C9_Witness ==
  /\ Len(images) = 2
  /\ PhotoCount(1) = 1 /\ PhotoCount(2) = 1
  /\ particles[Len(particles)].src = 1
  /\ particles[Len(particles) - 1].target = "posTree"
  /\ particles[Len(particles)].target = "none"

\* C11: on every tick while Mode is FOCUS and the list holds no PHOTO particle,
\* every particle moves toward its scatter target at rate 2.5 and none takes
\* the focus scale 4.5.
C11_FocusWithoutPhoto ==
  [][(ticks' # ticks /\ mode = "FOCUS" /\ ~HasPhoto(particles)) =>
       \A i \in 1..Len(particles) :
         /\ particles'[i].target = "posScatter"
         /\ particles'[i].speed = 25
         /\ particles'[i].scaleTo # "4.5"]_vars

\* C13: at most one predict callback is queued at any instant.
C13_SelfPaced == predictPending <= 1

\* A payload that was handed to the loader and is neither in flight nor failed.
Settled(k) == k <= lastProcessedImageCount /\ decoding[k] = 0 /\ k \notin failed

\* A step in which a decode fails leaves the particle list and the other
\* payloads' requests as they were.
FailureIsLocal ==
  failed' # failed =>
    /\ particles' = particles
    /\ \A k \in Payloads :
         (k \notin failed' \ failed) => decoding'[k] = decoding[k]

\* C16: a payload whose decode failed has no particle, every other payload
\* that finished decoding has exactly one, and the failure changes nothing
\* else.
C16_FailureIsolated ==
  /\ [](\A k \in Payloads :
          /\ (k \in failed => PhotoCount(k) = 0)
          /\ (Settled(k) => PhotoCount(k) = 1))
  /\ [][FailureIsLocal]_vars

\* The first payload failed after the second one was decoded and ticked.
C16_Witness ==
  /\ failed = {1}
  /\ Len(images) = 2
  /\ PhotoCount(2) = 1
  /\ PhotoCount(1) = 0
  /\ Settled(2)
  /\ particles[Len(particles)].target = "posTree"

\* The mesh ids grow along the list: the particles stand in creation order.
InCreationOrder ==
  \A i, j \in 1..Len(particles) : i < j => particles[i].id < particles[j].id

\* A step keeps every particle of the list at its index.
PrefixKept ==
  /\ Len(particles') >= Len(particles)
  /\ \A i \in 1..Len(particles) : particles'[i].id = particles[i].id

\* C12: the particle list is append-only: no step shortens it or moves a
\* particle already in it, and the list is always in creation order, also
\* when decode callbacks interleave with ticks.
C12_StableCreationOrder == []InCreationOrder /\ [][PrefixKept]_vars

\* Two photos were decoded out of upload order and a tick has visited both.
C12_Witness ==
  /\ Len(particles) = config.count + config.dustCount + 2
  /\ particles[Len(particles) - 1].src = 2
  /\ particles[Len(particles)].src = 1
  /\ particles[Len(particles)].target = "posTree"
  /\ ticks >= 3

\* v2 lies between v and t: the step from v toward t did not cross t and did
\* not move away from it.
Approached(v, v2, t) == (v <= v2 /\ v2 <= t) \/ (t <= v2 /\ v2 <= v)

\* The tick just taken, for the particle at index i.
ScaleStepSound(i) ==
  (50 * tickDt' < 10000 /\ particles[i].scale >= 0) =>
    /\ particles'[i].scale >= 0
    /\ Approached(particles[i].scale, particles'[i].scale,
                  TargetScale(particles[i], i, FocusTarget(particles),
                              tickMode', elapsed'))

PositionStepSound(i) ==
  LET t == TargetPos(particles[i], i, FocusTarget(particles), tickMode',
                     rotation)
      p == particles[i].position
      q == particles'[i].position
  IN (particles'[i].speed * tickDt' < 10000) =>
       /\ Approached(p.x, q.x, t.x)
       /\ Approached(p.y, q.y, t.y)
       /\ Approached(p.z, q.z, t.z)

\* C14: on every tick with rate * dt < 1, in every Mode and for every
\* particle, a non-negative scale stays non-negative, and scale and position
\* end between their old value and their target (no overshoot, no retreat).
C14_NoOvershoot ==
  [][ticks' # ticks =>
       \A i \in 1..Len(particles) : ScaleStepSound(i) /\ PositionStepSound(i)]_vars

\* A tick of 0.1 s in FOCUS has drawn the photo toward the camera at rate 6
\* and grown it toward 4.5 without reaching it.
C14_Witness ==
  /\ ticks >= 2
  /\ tickMode = "FOCUS"
  /\ tickDt = 100
  /\ \E i \in 1..Len(particles) :
       /\ particles[i].speed = 60
       /\ particles[i].scale > 1000
       /\ particles[i].scale < 4500
       /\ particles[i].position.z > 0

\* The last processGestures call and the kept one took the same frame and
\* the same previous Mode.
SameInputs ==
  /\ memo.state = "set"
  /\ memo.later >= 1
  /\ ~Raises(frame)
  /\ frame = memo.frame
  /\ prevMode = memo.prevMode

SamePointer ==
  /\ handData.detected = memo.hand.detected
  /\ handData.x = memo.hand.x
  /\ handData.y = memo.hand.y

\* C15 as stated: two processGestures calls on the same frame with the same
\* previous Mode produce the same Mode and the same PointerSignal.
C15_Purity == SameInputs => (mode = memo.mode /\ SamePointer)

\* C15 amended: on a frame with a hand the Mode and the PointerSignal are
\* determined by the frame and the previous Mode; on a frame without a hand
\* the Mode and detected = false are, while x and y are those of the previous
\* PointerSignal.
C15_PurityWithHand ==
  SameInputs =>
    /\ mode = memo.mode
    /\ handData.detected = memo.hand.detected
    /\ (Len(frame) >= 1 => SamePointer)
    /\ (Len(frame) = 0 => mode = prevMode /\ ~handData.detected)

\* The same one-hand frame was classified again, with the same previous Mode,
\* two calls after the kept one.
C15_Witness ==
  /\ SameInputs
  /\ memo.later >= 2
  /\ Len(frame) = 1
  /\ handData.x # 0

\* C17: once creating the landmarker or opening the camera has failed,
\* nothing was rethrown, the loading flag is cleared, no predict is queued,
\* Mode is TREE and detected is false from then on, and while the view is
\* mounted an animate callback stays queued.
C17_InitFailureAbsorbed ==
  initPc = "failed" =>
    /\ ~raised
    /\ ~loading
    /\ predictPending = 0
    /\ mode = "TREE"
    /\ ~handData.detected
    /\ (phase = "mounted" => rafAnimate # 0)

\* The camera failed after the landmarker was created, and the formation has
\* ticked since the mount.
C17_Witness ==
  /\ initPc = "failed"
  /\ landmarkerReady
  /\ ticks >= 3
  /\ rafAnimate # 0
  /\ particles[1].target = "posTree"

\* The orientation after a tick of dt milliseconds, by the four rules, for
\* the Mode m and the pointer hd.
SteeredTo(rot, dt, m, hd) ==
  /\ rotation'.y = rot.y + TDiv((hd.x * 1571 - rot.y) * 2 * dt, 1000)
  /\ rotation'.x = rot.x + TDiv((hd.y * 628 - rot.x) * 2 * dt, 1000)
TreeTurn(rot, dt) ==
  /\ rotation'.y = rot.y + 400 * dt
  /\ rotation'.x = TDiv(rot.x * 95, 100)
DateSettle(rot) ==
  /\ rotation'.y = TDiv(rot.y * 95, 100)
  /\ rotation'.x = TDiv(rot.x * 95, 100)
Drift(rot, dt) ==
  /\ rotation'.y = rot.y + 100 * dt
  /\ rotation'.x = rot.x

\* C18: every tick applies to (yaw, pitch) the one rule selected by the
\* current Mode and PointerSignal: steering toward the pointer when a hand is
\* detected outside TREE, the TREE turn in TREE with or without a hand, the
\* DATE settling in DATE without a hand, the slow drift otherwise.
C18_OrientationRule ==
  [][ticks' # ticks =>
       IF mode = "TREE" THEN TreeTurn(rotation, tickDt')
       ELSE IF handData.detected
       THEN SteeredTo(rotation, tickDt', mode, handData)
       ELSE IF mode = "DATE" THEN DateSettle(rotation)
       ELSE Drift(rotation, tickDt')]_vars

\* C19: a tick in DATE multiplies the spin rotation of every particle by
\* 0.95 on both spun axes and adds no increment; a tick in any other Mode
\* advances each spun axis by spinSpeed * dt * 0.5.
C19_SpinDecaysInDate ==
  [][ticks' # ticks =>
       \A i \in 1..Len(particles) :
         LET r == particles[i].rotation
             ss == particles[i].spinSpeed
         IN IF tickMode' = "DATE"
            THEN /\ particles'[i].rotation.x = TDiv(r.x * 95, 100)
                 /\ particles'[i].rotation.y = TDiv(r.y * 95, 100)
            ELSE /\ particles'[i].rotation.x = r.x + TDiv(ss.x * tickDt', 2)
                 /\ particles'[i].rotation.y = r.y + TDiv(ss.y * tickDt', 2)]_vars

\* The character, row and column of a mosaic position.
CellOf(v) ==
  [char |-> (v.x - startX) \div spacing,
   col |-> ((v.x - startX) % spacing) \div 600,
   row |-> (4000 - v.y) \div 600]

\* Cell a comes before cell b character by character, row by row, column by
\* column.
CellBefore(a, b) ==
  \/ a.char < b.char
  \/ a.char = b.char /\ a.row < b.row
  \/ a.char = b.char /\ a.row = b.row /\ a.col < b.col

\* datePositions lists exactly the lit cells of the eight characters, in
\* that order.
MosaicInOrder ==
  /\ \A i \in 1..Len(datePositions) :
       LET c == CellOf(datePositions[i])
       IN /\ c.char \in 0..7 /\ c.row \in 0..6 /\ c.col \in 0..4
          /\ DIGITS[fullDateStr[c.char + 1]][c.row + 1][c.col + 1] = 1
          /\ datePositions[i].z = 0
  /\ \A i \in 1..(Len(datePositions) - 1) :
       CellBefore(CellOf(datePositions[i]), CellOf(datePositions[i + 1]))
  /\ Len(datePositions) =
       Cardinality({ c \in (0..7) \X (0..6) \X (0..4) :
                       DIGITS[fullDateStr[c[1] + 1]][c[2] + 1][c[3] + 1] = 1 })

\* The date target the particle at index i must have.
DateTargetRight(i) ==
  LET p == particles[i]
  IN IF p.type = "GOLD"
     THEN (IF i <= Len(datePositions) THEN p.posDate = datePositions[i]
           ELSE p.posDate = MultiplyScalar(p.posScatter, 15, 10))
     ELSE IF p.type = "DUST"
     THEN p.posDate = MultiplyScalar(p.posScatter, 2, 1)
     ELSE p.posDate = MultiplyScalar(p.posScatter, 12, 10)

\* C20: the i-th GOLD particle has the i-th lit cell of the mosaic as its
\* date target while cells remain, so no two particles share a cell; every
\* later GOLD particle has its scatter target times 1.5, every DUST particle
\* times 2 and every PHOTO particle times 1.2.
C20_DateAssignment ==
  phase = "mounted" =>
    /\ MosaicInOrder
    /\ \A i \in 1..Len(particles) : DateTargetRight(i)
    /\ \A i, j \in 1..Len(particles) :
         (i < j /\ j <= Len(datePositions) /\ particles[j].type = "GOLD")
           => particles[i].posDate # particles[j].posDate

\* There is one GOLD particle more than cells, and a photo has been added.
C20_Witness ==
  /\ phase = "mounted"
  /\ config.count = Len(datePositions) + 1
  /\ Len(particles) = config.count + config.dustCount + 1
  /\ particles[config.count].type = "GOLD"
  /\ particles[config.count].posDate.z # 0
  /\ particles[Len(datePositions)].posDate.z = 0
  /\ particles[Len(particles)].type = "PHOTO"

====
